---------------------------- MODULE Spec2Model ----------------------------
(***************************************************************************)
(* The NPAG driver (src/src/algorithms/npag.rs) as a state machine.        *)
(*                                                                         *)
(* Floating point quantities are carried as integers in fixed units:       *)
(*   eps                 in units of 0.2/2048000   (0.2 = 2048000,         *)
(*                                                  1e-4 = 1024)           *)
(*   objf, f0, f1        in units of 1e-4          (THETA_G = 1,           *)
(*                                                  THETA_F = 100)         *)
(*   lambda, w           in units of 1e-4          (1.0 = WeightOne)       *)
(*   gamma_delta         in units of 0.1/16        (0.1 = 16, 0.01 = 1.6)  *)
(*   gamma               in units of 1e-3                                  *)
(*   a coordinate of a support point in ticks; the width of every range    *)
(*   is a multiple of 10240 ticks, so that eps * (high - low) is a whole   *)
(*   number of ticks for every eps the loop can hold.                      *)
(* The numerical collaborators (sim_obs, prob, ipm::burke, the QR factor)  *)
(* are outside the driver: their results are inputs, drawn from the sets   *)
(* their contracts allow.                                                  *)
(***************************************************************************)
EXTENDS Integers, Sequences, FiniteSets, TLC

VARIABLES
    pc,          \* position of the driver inside npag
    theta,       \* support points, a sequence of points (rows of theta)
    psi,         \* likelihood matrix, a sequence of columns; a column is
                 \* [pt |-> point it was computed for, gl |-> gamma used]
    lambda,      \* IPM output of the current cycle
    w,           \* reported weights
    eps, last_objf, objf, f0, f1, cycle, gamma_delta, gamma, converged,
    n_old,       \* rows of old_theta in the last adaptative_grid call
    state,       \* the AppState built in the current cycle
    chan,        \* messages sent on tx and not yet received
    seen,        \* the observer: the last AppState it received
    meta,        \* records written to meta_rust.csv after the header
    logged,      \* messages given to the log
    stopfile,    \* whether the file `stop` exists
    stop_born,   \* the first cycle whose stop poll can see the file
    cfg_cycles,  \* settings.parsed.config.cycles
    dataset,     \* the data the run fits: "weights", "objective", "flat"
    theta0,      \* the theta npag was called with
    pmetrics,    \* settings.parsed.config.pmetrics_outputs is Some(true)
    rx_open,     \* whether the receiving half of the channel still exists
    files,       \* the files created in the working directory so far
    arg,         \* the arguments of the function a function check calls
    res          \* what that function returned

vars == <<pc, theta, psi, lambda, w, eps, last_objf, objf, f0, f1, cycle,
          gamma_delta, gamma, converged, n_old, state, chan, seen, meta,
          logged, stopfile, stop_born, cfg_cycles, dataset, theta0, pmetrics, rx_open, files, arg, res>>

(***************************************************************************)
(* Bounds of the model.                                                    *)
(***************************************************************************)
\* config.cycles of a run on the varied data is drawn from 0..MaxCycles
MaxCycles == 2
\* config.cycles of a run on the flat data
LongCycles == 24
\* number of subjects (rows of psi)
NSub == 2

(***************************************************************************)
(* Program constants, in the units above.                                  *)
(***************************************************************************)
THETA_E == 1024
THETA_G == 1
THETA_F == 100
\* THETA_D = 1e-4 is 1/ThetaDInv
ThetaDInv == 10000
EpsInit == 2048000
ObjfInit == -1000000000
ObjfInf == 1000000000
DeltaInit == 16
WeightOne == 10000

\* the ranges of the two random parameters, <<low, high>> in ticks
ranges == << <<0, 10240>>, <<-10240, 10240>> >>
Dim == Len(ranges)
Width(j) == ranges[j][2] - ranges[j][1]
\* ticks of range j in one step of eps * (high - low)
GridStep(e, j) == (e * (Width(j) \div 10240)) \div 1000

Abs(x) == IF x < 0 THEN -x ELSE x

RECURSIVE SumSeq(_)
SumSeq(s) == IF s = <<>> THEN 0 ELSE Head(s) + SumSeq(Tail(s))

RECURSIVE MaxSeq(_)
MaxSeq(s) == IF Len(s) = 1 THEN s[1]
             ELSE LET m == MaxSeq(Tail(s)) IN IF s[1] > m THEN s[1] ELSE m

\* the rows (columns, entries) of s whose index is in keep, in order
RECURSIVE Select(_, _, _)
Select(s, keep, i) ==
    IF i > Len(s) THEN <<>>
    ELSE (IF i \in keep THEN <<s[i]>> ELSE <<>>) \o Select(s, keep, i + 1)


(***************************************************************************)
(* prob: one likelihood column per row of theta, under the error model     *)
(* with scale g.                                                           *)
(***************************************************************************)
prob(th, g) == [i \in 1..Len(th) |-> [pt |-> th[i], gl |-> g]]

(***************************************************************************)
(* ipm::burke.  Its contract: Ok(lambda, objf) with lambda >= 0 and        *)
(* sum(lambda) = 1, one entry per column of psi, or Err.  What a solve     *)
(* returns depends on the data of the run:                                 *)
(*   "weights"    the weight vectors vary: all mass on one column, an even *)
(*                split, a split with one weight below max/1000, an even   *)
(*                split over more columns than there are subjects, each    *)
(*                placed on the first or on the last columns of psi;       *)
(*                objf = 0;                                                *)
(*   "objective"  objf varies over three levels (one THETA_G apart, and    *)
(*                more than THETA_G apart); all mass on the first column;  *)
(*   "flat"       all mass on the first column and objf = 0 in every       *)
(*                cycle, the sum of log marginals at one of two levels     *)
(*                more than THETA_F apart.                                 *)
(***************************************************************************)
EvenShape(m) ==
    [i \in 1..m |-> IF i = 1 THEN WeightOne - (m - 1) * (WeightOne \div m)
                    ELSE WeightOne \div m]

LamShapes == {EvenShape(1), EvenShape(2), <<WeightOne - 1, 1>>,
              <<1, WeightOne - 1>>, EvenShape(NSub + 1)}

\* sh on the first Len(sh) of K columns, and on the last Len(sh)
PlaceFirst(sh, K) == [i \in 1..K |-> IF i <= Len(sh) THEN sh[i] ELSE 0]
PlaceLast(sh, K) ==
    [i \in 1..K |-> IF i > K - Len(sh) THEN sh[i - (K - Len(sh))] ELSE 0]

BurkeLambdas(K) ==
    IF dataset = "weights"
    THEN UNION {{PlaceFirst(sh, K), PlaceLast(sh, K)}
                : sh \in {x \in LamShapes : Len(x) <= K}}
    ELSE {PlaceFirst(EvenShape(1), K)}

BurkeObjfs == IF dataset = "objective" THEN {0, 1, 3} ELSE {0}

\* f1 = sum of ln(psi . w)
LogMarginals == IF dataset = "flat" THEN {0, 101} ELSE {0}

(***************************************************************************)
(* The weight thresholds of the two prunes (npag.rs 103 and 222).          *)
(***************************************************************************)
\* mutant: the absolute threshold is one half instead of 1e-8
KeepFirstMajority(lam) ==
    {i \in 1..Len(lam) : lam[i] * 2 > WeightOne /\ lam[i] * 1000 > MaxSeq(lam)}
\* lam > 1e-8 && lam > max(lambda)/1000
KeepFirst(lam) ==
    {i \in 1..Len(lam) : lam[i] * 10000 > 1 /\ lam[i] * 1000 > MaxSeq(lam)}

\* mutant: every column of positive weight is kept
KeepFinalPositive(lam) == {i \in 1..Len(lam) : lam[i] > 0}
\* lam > max(lambda)/1000
KeepFinal(lam) ==
    {i \in 1..Len(lam) : lam[i] * 1000 > MaxSeq(lam)}

\* theta_rows, psi_columns, lambda_tmp: what a prune pushes, stacked
theta_rows(th, keep) == Select(th, keep, 1)
psi_columns(ps, keep) == Select(ps, keep, 1)
\* mutant: the weights are not filtered with the rows and columns
lambda_tmp_unfiltered(lam, keep) == lam
lambda_tmp(lam, keep) == Select(lam, keep, 1)

(***************************************************************************)
(* Init: the state of npag after lines 34-69.                              *)
(***************************************************************************)
NoState == [cycle |-> 0, objf |-> 0, delta_objf |-> 0, nspp |-> 0,
            stop_text |-> "", gamlam |-> 0]

\* the initial grids: the centre of the box; two points closer than
\* THETA_D and less than one step of eps = 0.2 from the lower bound; a
\* point on the boundary of the box with an interior one
InitialThetas ==
    { << <<5120, 0>> >>,
      << <<1024, 0>>, <<1024, 1>> >>,
      << <<0, -10240>>, <<8192, 4096>> >> }

Init ==
    /\ dataset \in {"weights", "objective", "flat"}
    /\ cfg_cycles \in (IF dataset = "flat" THEN {LongCycles}
                       ELSE 0..MaxCycles)
    /\ theta \in (IF dataset = "weights" THEN InitialThetas
                  ELSE {<< <<5120, 0>> >>})
    /\ theta0 = theta
    /\ pc = "head"
    /\ psi = <<>>
    /\ lambda = <<>>
    /\ w = <<>>
    /\ eps = EpsInit
    /\ last_objf = ObjfInit
    /\ objf = ObjfInf
    /\ f0 = ObjfInit
    /\ f1 = 0
    /\ cycle = 1
    /\ gamma_delta = DeltaInit
    /\ gamma = 1000
    /\ converged = FALSE
    /\ n_old = 0
    /\ state = NoState
    /\ chan = <<>>
    /\ seen = [cycle |-> 0, stop_text |-> ""]
    /\ meta = <<>>
    /\ logged = {}
    /\ stopfile = FALSE
    /\ stop_born = 0
    /\ pmetrics = FALSE
    /\ rx_open = TRUE
    /\ files = {"meta_rust.csv"}
    /\ arg = <<>>
    /\ res = <<>>

Running == pc \notin {"done", "panic"}

\* mutant: the error is logged and the loop is left by a break, so that
\* npag returns what it has
PanicAsBreak ==
    /\ pc' = "done"
    /\ logged' = logged \cup {"Error in IPM"}
    /\ UNCHANGED <<theta, psi, lambda, w, eps, last_objf, objf, f0, f1,
                   cycle, gamma_delta, gamma, converged, n_old, state, chan,
                   seen, meta, stopfile, stop_born, cfg_cycles, dataset,
                   theta0, pmetrics, rx_open, files, arg, res>>
\* Err(err) => panic!("Error in IPM: {:?}", err): the thread unwinds with
\* the diagnostic, npag returns nothing
Panic ==
    /\ pc' = "panic"
    /\ logged' = logged \cup {"Error in IPM"}
    /\ UNCHANGED <<theta, psi, lambda, w, eps, last_objf, objf, f0, f1,
                   cycle, gamma_delta, gamma, converged, n_old, state, chan, seen, meta,
                   stopfile, stop_born, cfg_cycles, dataset, theta0, pmetrics, rx_open, files, arg, res>>

(***************************************************************************)
(* Lines 71-109: the loop guard, psi for the current grid, the first IPM   *)
(* solve and the first prune.                                              *)
(***************************************************************************)
Solve1 ==
    /\ pc = "head"
    /\ IF eps > THETA_E
       THEN \/ \E lam \in BurkeLambdas(Len(theta)) :
                 LET keep == KeepFirst(lam) IN
                 /\ lambda' = lam
                 /\ theta' = theta_rows(theta, keep)
                 /\ psi' = psi_columns(prob(theta, gamma), keep)
                 /\ pc' = "qr"
                 /\ UNCHANGED <<w, eps, last_objf, objf, f0, f1, cycle,
                                gamma_delta, gamma, converged, n_old, state,
                                chan, seen, meta, logged, stopfile,
                                stop_born, cfg_cycles, dataset, theta0, pmetrics, rx_open, files, arg, res>>
            \/ Panic
       ELSE /\ pc' = "done"
            /\ UNCHANGED <<theta, psi, lambda, w, eps, last_objf, objf, f0,
                           f1, cycle, gamma_delta, gamma, converged, n_old, state, chan,
                           seen, meta, logged, stopfile, stop_born,
                           cfg_cycles, dataset, theta0, pmetrics, rx_open, files, arg, res>>

(***************************************************************************)
(* Lines 111-154: QR condensation.  The permutation sorts the columns of   *)
(* the row-normalised psi by their sums, so it is an input; only the       *)
(* prefix of it that the code reads is drawn.  n_psi.qr() is Ok when psi   *)
(* has no more columns than rows and Err otherwise (linfa's thin QR); in   *)
(* the Ok case `count` is the number of columns whose ratio                *)
(* r_ii / |R[:,i]| is >= 1e-8 (the first always is: R[:,0] has r_00 as     *)
(* its only entry), and the rows kept are perm.indices[0..count].          *)
(***************************************************************************)
RECURSIVE InjSeqs(_, _)
InjSeqs(S, m) ==
    IF m = 0 THEN {<<>>}
    ELSE UNION {{<<x>> \o p : p \in InjSeqs(S \ {x}, m - 1)} : x \in S}

Permute(s, pre) == [i \in 1..Len(pre) |-> s[pre[i]]]

Condense ==
    /\ pc = "qr"
    /\ LET K == Len(psi) IN
       IF K <= NSub
       THEN \E count \in 1..K : \E pre \in InjSeqs(1..K, count) :
              /\ theta' = Permute(theta, pre)
              /\ psi' = Permute(psi, pre)
              /\ logged' = logged
       ELSE \E pre \in InjSeqs(1..K, NSub) :
              /\ theta' = Permute(theta, pre)
              /\ psi' = Permute(psi, pre)
              /\ logged' = logged \cup {"Pushed down"}
    /\ pc' = "ipm2"
    /\ UNCHANGED <<lambda, w, eps, last_objf, objf, f0, f1, cycle,
                   gamma_delta, gamma, converged, n_old, state, chan, seen, meta, stopfile,
                   stop_born, cfg_cycles, dataset, theta0, pmetrics, rx_open, files, arg, res>>

(***************************************************************************)
(* Lines 155-161: the IPM solve on the condensed psi.                      *)
(***************************************************************************)
gamma_up == (gamma * (160 + gamma_delta)) \div 160
gamma_down == (gamma * 160) \div (160 + gamma_delta)

Solve2 ==
    /\ pc = "ipm2"
    /\ \/ /\ \E lam \in BurkeLambdas(Len(psi)) : lambda' = lam
          /\ \E o \in BurkeObjfs : objf' = o
          /\ pc' = "gamma"
          /\ UNCHANGED <<theta, psi, w, eps, last_objf, f0, f1, cycle,
                         gamma_delta, gamma, converged, n_old, state, chan, seen,
                         meta, logged, stopfile, stop_born, cfg_cycles,
                         dataset, theta0, pmetrics, rx_open, files, arg, res>>
       \/ Panic

(***************************************************************************)
(* Lines 163-232: the gamma line search (psi_up, psi_down and their IPM    *)
(* solves), the two sequential adoption tests, the update of gamma_delta,  *)
(* and the final prune that fixes theta, psi and w.                        *)
(***************************************************************************)
\* mutant: gamma_delta is halved and never reset
HalveDeltaNoReset(d) == d \div 2
\* gamma_delta *= 0.5; if gamma_delta <= 0.01 { gamma_delta = 0.1 }
HalveDelta(d) == IF (d \div 2) * 10 <= 16 THEN DeltaInit ELSE d \div 2

\* mutant: the down candidate is adopted on a tie as well
AdoptDownOnTie(o_down, o) == o_down >= o
\* objf_up > objf   and   objf_down > objf
AdoptUp(o_up, o) == o_up > o
AdoptDown(o_down, o) == o_down > o

GammaSearch ==
    /\ pc = "gamma"
    /\ \/ \E objf_up \in BurkeObjfs, objf_down \in BurkeObjfs :
            LET up == AdoptUp(objf_up, objf)
                o1 == IF up THEN objf_up ELSE objf
                down == AdoptDown(objf_down, o1)
                o2 == IF down THEN objf_down ELSE o1
            IN \* a candidate's lambda is dropped unread unless its move is
               \* adopted: it is drawn only then
               \E lam_up \in (IF up THEN BurkeLambdas(Len(theta))
                              ELSE {<<>>}),
                  lam_down \in (IF down THEN BurkeLambdas(Len(theta))
                                ELSE {<<>>}) :
                 LET g1 == IF up THEN gamma_up ELSE gamma
                     d1 == IF up THEN gamma_delta * 4 ELSE gamma_delta
                     l1 == IF up THEN lam_up ELSE lambda
                     p1 == IF up THEN prob(theta, gamma_up) ELSE psi
                     g2 == IF down THEN gamma_down ELSE g1
                     d2 == IF down THEN d1 * 4 ELSE d1
                     l2 == IF down THEN lam_down ELSE l1
                     p2 == IF down THEN prob(theta, gamma_down) ELSE p1
                     keep == KeepFinal(l2)
                 IN /\ gamma' = g2
                    /\ objf' = o2
                    /\ gamma_delta' = HalveDelta(d2)
                    /\ lambda' = l2
                    /\ theta' = theta_rows(theta, keep)
                    /\ psi' = psi_columns(p2, keep)
                    /\ w' = lambda_tmp(l2, keep)
                    /\ pc' = "report"
                    /\ UNCHANGED <<eps, last_objf, f0, f1, cycle, converged,
                                   n_old, state, chan, seen, meta, logged,
                                   stopfile, stop_born, cfg_cycles, dataset, theta0, pmetrics, rx_open, files, arg, res>>
       \/ Panic

(***************************************************************************)
(* Lines 234-262: the objective-decrease test, then the AppState of the    *)
(* cycle is built and sent.                                                *)
(***************************************************************************)
\* what the observer reads of an AppState: its cycle and its stop_text
Message(st) == [cycle |-> st.cycle, stop_text |-> st.stop_text]

\* tx.send(..) on the unbounded channel never waits; it is Ok while the
\* receiving half exists and Err once it was dropped
SendOk == rx_open

\* tx.send(st).unwrap(), then the driver goes on at position next
SendUnwrap(st, next) ==
    IF SendOk
    THEN chan' = Append(chan, Message(st)) /\ pc' = next
    ELSE chan' = chan /\ pc' = "panic"

\* lines 240-246: cycle_writer.write(..) under pmetrics_outputs
cycle_writer_write == IF pmetrics THEN files \cup {"cycles.csv"} ELSE files

Report ==
    /\ pc = "report"
    /\ IF last_objf > objf
       THEN /\ logged' = logged \cup {"Objf decreased"}
            /\ pc' = "done"
            /\ UNCHANGED <<state, chan, files>>
       ELSE /\ files' = cycle_writer_write
            /\ state' = [cycle |-> cycle, objf |-> -2 * objf,
                         delta_objf |-> Abs(last_objf - objf),
                         nspp |-> Len(theta), stop_text |-> "",
                         gamlam |-> gamma]
            /\ SendUnwrap(state', "conv")
            /\ logged' = logged
    /\ UNCHANGED <<theta, psi, lambda, w, eps, last_objf, objf, f0, f1,
                   cycle, gamma_delta, gamma, converged, n_old, seen, meta, stopfile,
                   stop_born, cfg_cycles, dataset, theta0, pmetrics, rx_open, arg, res>>

\* the final message of a run: the cycle's AppState with its stop_text set
Finish(text, flag) ==
    /\ meta' = Append(meta, <<flag, cycle>>)
    /\ state' = [state EXCEPT !.stop_text = text]
    /\ SendUnwrap(state', "done")

(***************************************************************************)
(* Lines 264-283: the convergence test.                                    *)
(***************************************************************************)
\* mutant: eps is halved in every cycle, whatever the objective did
GCriterionLoose == eps > THETA_E
\* (last_objf - objf).abs() <= THETA_G && eps > THETA_E
GCriterion == Abs(last_objf - objf) <= THETA_G /\ eps > THETA_E
\* mutant: the likelihood criterion is taken as met at every floor hit
FCriterionAlways(f, f_0) == TRUE
\* mutant: the difference is compared without abs()
FCriterionSigned(f, f_0) == f - f_0 <= THETA_F
\* (f1 - f0).abs() <= THETA_F
FCriterion(f, f_0) == Abs(f - f_0) <= THETA_F

ConvTest ==
    /\ pc = "conv"
    /\ IF GCriterion
       THEN IF eps \div 2 <= THETA_E
            THEN \E f \in LogMarginals :
                   /\ f1' = f
                   /\ IF FCriterion(f, f0)
                      THEN /\ Finish("The run converged!", "true")
                           /\ converged' = TRUE
                           /\ eps' = eps \div 2
                           /\ f0' = f0
                           /\ logged' = logged \cup
                                  {"Likelihood criteria convergence"}
                      ELSE /\ f0' = f
                           /\ eps' = EpsInit
                           /\ pc' = "maxcyc"
                           /\ UNCHANGED <<converged, meta, state, chan,
                                          logged>>
            ELSE /\ eps' = eps \div 2
                 /\ pc' = "maxcyc"
                 /\ UNCHANGED <<f0, f1, converged, meta, state, chan,
                                logged>>
       ELSE /\ pc' = "maxcyc"
            /\ UNCHANGED <<eps, f0, f1, converged, meta, state, chan,
                           logged>>
    /\ UNCHANGED <<theta, psi, lambda, w, last_objf, objf, cycle,
                   gamma_delta, gamma, n_old, seen, stopfile, stop_born, cfg_cycles, dataset, theta0, pmetrics, rx_open, files, arg, res>>

(***************************************************************************)
(* Lines 285-294: the cycle cap.                                           *)
(***************************************************************************)
\* mutant: the cap is tested with > instead of >=
CapReachedStrict(c, n) == c > n
\* cycle >= settings.parsed.config.cycles
CapReached(c, n) == c >= n

MaxCycleTest ==
    /\ pc = "maxcyc"
    /\ IF CapReached(cycle, cfg_cycles)
       THEN /\ Finish("No (max cycle)", "false")
            /\ logged' = logged \cup {"Maximum number of cycles reached"}
       ELSE /\ pc' = "stoppoll"
            /\ UNCHANGED <<meta, state, chan, logged>>
    /\ UNCHANGED <<theta, psi, lambda, w, eps, last_objf, objf, f0, f1,
                   cycle, gamma_delta, gamma, converged, n_old, seen, stopfile, stop_born,
                   cfg_cycles, dataset, theta0, pmetrics, rx_open, files, arg, res>>

(***************************************************************************)
(* Lines 296-306: the poll of the stop file.                               *)
(***************************************************************************)
\* mutants: the file is never looked for; it is looked for only in even
\* cycles
stopfile_ignored == FALSE
stopfile_throttled == stopfile /\ cycle % 2 = 0
\* std::path::Path::new("stop").exists()
stopfile_found == stopfile

StopPoll ==
    /\ pc = "stoppoll"
    /\ IF stopfile_found
       THEN /\ Finish("No (stopped)", "false")
            /\ logged' = logged \cup {"Stopfile detected - breaking"}
       ELSE /\ pc' = "expand"
            /\ UNCHANGED <<meta, state, chan, logged>>
    /\ UNCHANGED <<theta, psi, lambda, w, eps, last_objf, objf, f0, f1,
                   cycle, gamma_delta, gamma, converged, n_old, seen, stopfile, stop_born,
                   cfg_cycles, dataset, theta0, pmetrics, rx_open, files, arg, res>>

(***************************************************************************)
(* Lines 317-352: adaptative_grid and evaluate_spp.                        *)
(***************************************************************************)
\* the width of range j in units of 10240 ticks
WidthUnits(j) == Width(j) \div 10240

RECURSIVE UnitsProd(_)
UnitsProd(j) == IF j > Dim THEN 1 ELSE WidthUnits(j) * UnitsProd(j + 1)

\* sum_k |p_k - q_k| / (high_k - low_k), times 10240 * UnitsProd(1)
RECURSIVE DistNum(_, _, _)
DistNum(p, q, k) ==
    IF k > Dim THEN 0
    ELSE Abs(p[k] - q[k]) * (UnitsProd(1) \div WidthUnits(k))
         + DistNum(p, q, k + 1)

\* dist <= THETA_D
Within(p, q) == DistNum(p, q, 1) * ThetaDInv <= 10240 * UnitsProd(1)

\* mutant: the candidate is appended without the distance guard
evaluate_spp_unguarded(th, candidate) == Append(th, candidate)
evaluate_spp(th, candidate) ==
    IF \E i \in 1..Len(th) : Within(candidate, th[i])
    THEN th
    ELSE Append(th, candidate)

\* val + l < ranges[j].1
FitsAbove(val, l, j) == val + l < ranges[j][2]
\* mutant: the lower test forgets the step
FitsBelowNoStep(val, l, j) == val > ranges[j][1]
\* val - l > ranges[j].0
FitsBelow(val, l, j) == val - l > ranges[j][1]

\* the calls of evaluate_spp for rows i.. of old_theta, axes j.. of row i
RECURSIVE GridFrom(_, _, _, _, _)
GridFrom(th, old, e, i, j) ==
    IF i > Len(old) THEN th
    ELSE IF j > Dim THEN GridFrom(th, old, e, i + 1, 1)
    ELSE LET l == GridStep(e, j)
             val == old[i][j]
             t1 == IF FitsAbove(val, l, j)
                   THEN evaluate_spp(th, [old[i] EXCEPT ![j] = val + l])
                   ELSE th
             t2 == IF FitsBelow(val, l, j)
                   THEN evaluate_spp(t1, [old[i] EXCEPT ![j] = val - l])
                   ELSE t1
         IN GridFrom(t2, old, e, i, j + 1)

adaptative_grid(th, e) == GridFrom(th, th, e, 1, 1)

\* lines 308-311
Expand ==
    /\ pc = "expand"
    /\ theta' = adaptative_grid(theta, eps)
    /\ n_old' = Len(theta)
    /\ cycle' = cycle + 1
    /\ last_objf' = objf
    /\ state' = NoState
    /\ pc' = "head"
    /\ UNCHANGED <<psi, lambda, w, eps, objf, f0, f1, gamma_delta, gamma,
                   converged,
                   chan, seen, meta, logged, stopfile, stop_born,
                   cfg_cycles, dataset, theta0, pmetrics, rx_open, files, arg, res>>

\* lines 313-314: (theta, psi, w, objf, cycle, converged)
npag_result ==
    [theta |-> theta, psi |-> psi, w |-> w, objf |-> objf, cycle |-> cycle,
     converged |-> converged]

(***************************************************************************)
(* The environment: the user creates the stop file while the run is in     *)
(* progress; the observer takes the next message from the channel.         *)
(***************************************************************************)
CreateStop ==
    /\ Running
    /\ ~stopfile
    /\ stopfile' = TRUE
    /\ stop_born' = IF pc = "expand" THEN cycle + 1 ELSE cycle
    /\ UNCHANGED <<pc, theta, psi, lambda, w, eps, last_objf, objf, f0, f1,
                   cycle, gamma_delta, gamma, converged, n_old, state, chan, seen, meta,
                   logged, cfg_cycles, dataset, theta0, pmetrics, rx_open, files, arg, res>>

Recv ==
    /\ chan # <<>>
    /\ seen' = Head(chan)
    /\ chan' = Tail(chan)
    /\ UNCHANGED <<pc, theta, psi, lambda, w, eps, last_objf, objf, f0, f1,
                   cycle, gamma_delta, gamma, converged, n_old, state, meta, logged,
                   stopfile, stop_born, cfg_cycles, dataset, theta0, pmetrics, rx_open, files, arg, res>>

Next ==
    \/ Solve1 \/ Condense \/ Solve2 \/ GammaSearch
    \/ Report \/ ConvTest \/ MaxCycleTest \/ StopPoll \/ Expand
    \/ CreateStop \/ Recv

Spec == Init /\ [][Next]_vars

(***************************************************************************)
(* The run under the TUI (start, tui = true): start_ui owns the receiving  *)
(* half; when the user quits, start_ui returns and the receiver is         *)
(* dropped with whatever it had not taken.                                 *)
(***************************************************************************)
ObserverQuit ==
    /\ rx_open
    /\ rx_open' = FALSE
    /\ chan' = <<>>
    /\ UNCHANGED <<pc, theta, psi, lambda, w, eps, last_objf, objf, f0, f1,
                   cycle, gamma_delta, gamma, converged, n_old, state, seen,
                   meta, logged, stopfile, stop_born, cfg_cycles, dataset,
                   theta0, pmetrics, files, arg, res>>

InitObs == Init /\ dataset = "objective"

NextObs == Next \/ ObserverQuit

SpecObs == InitObs /\ [][NextObs]_vars

(***************************************************************************)
(* Function checks.  A function of the repository is called once on        *)
(* arguments drawn from a bounded set: `arg` holds the arguments, `res`    *)
(* the value returned, pc the position of the call.  The variables of the  *)
(* driver rest at the values below.                                        *)
(***************************************************************************)
driver_vars == <<theta, psi, lambda, w, eps, last_objf, objf, f0, f1, cycle,
                 gamma_delta, gamma, converged, n_old, state, chan, seen,
                 meta, stopfile, stop_born, cfg_cycles, dataset, theta0,
                 pmetrics, rx_open, files>>

DriverIdle ==
    /\ theta = <<>> /\ theta0 = <<>> /\ psi = <<>> /\ lambda = <<>>
    /\ w = <<>> /\ eps = EpsInit /\ last_objf = ObjfInit /\ objf = ObjfInf
    /\ f0 = ObjfInit /\ f1 = 0 /\ cycle = 1 /\ gamma_delta = DeltaInit
    /\ gamma = 1000 /\ converged = FALSE /\ n_old = 0 /\ state = NoState
    /\ chan = <<>> /\ seen = [cycle |-> 0, stop_text |-> ""]
    /\ meta = <<>> /\ stopfile = FALSE /\ stop_born = 0
    /\ dataset = "objective" /\ rx_open = TRUE /\ files = {}

\* all sequences of length n over S
SeqsOf(S, n) == [1..n -> S]

(***************************************************************************)
(* prob and normal_likelihood (src/src/base/prob.rs).  An f64 is a record  *)
(* [k, v]: k = "fin" with the value v, or k = "nan".  A likelihood is kept *)
(* as the expression the code evaluates: one factor                        *)
(*     FRAC_1_SQRT_2PI * exp(-num / den) / over                            *)
(* per observation, with its class: "nan" when IEEE arithmetic gives NaN   *)
(* (a NaN operand, or sigma = 0: exp(-d/0)/0 is 0/0 or NaN/0), "pos"       *)
(* otherwise (sigma > 0).                                                  *)
(***************************************************************************)
Fin(v) == [k |-> "fin", v |-> v]
NaN == [k |-> "nan", v |-> 0]

\* (yobs - ypred).mapv(|x| x.powi(2)), one entry
diff(y, yp) == IF yp.k = "nan" THEN NaN ELSE Fin((y - yp.v) * (y - yp.v))

\* (2.0 * sigma).mapv(|x| x.powi(2)), one entry
two_sigma_sq(sg) == (2 * sg) * (2 * sg)

\* one entry of aux_vec
aux(y, yp, sg) ==
    [over |-> sg, num |-> diff(y, yp), den |-> two_sigma_sq(sg),
     class |-> IF diff(y, yp).k = "nan" \/ sg = 0 THEN "nan" ELSE "pos"]

\* aux_vec.product(): NaN as soon as one factor is NaN
normal_likelihood(ypred, yobs, sigma) ==
    LET aux_vec == [k \in 1..Len(yobs) |-> aux(yobs[k], ypred[k], sigma[k])]
    IN [factors |-> aux_vec,
        class |-> IF \E k \in 1..Len(yobs) : aux_vec[k].class = "nan"
                  THEN "nan" ELSE "pos"]

\* ll.is_nan() || ll.is_infinite()
Anomalous(ll) == ll.class \in {"nan", "inf"}

\* element.fill(ll)
StoredCell(ll) == ll

\* the matrix prob returns: rows are subjects, columns support points
prob_matrix(a) ==
    [i \in 1..Len(a.obs) |->
        [j \in 1..Len(a.ypred[i]) |->
            StoredCell(normal_likelihood(a.ypred[i][j], a.obs[i],
                                         a.sigma[i]))]]

\* the cells the log names (subject and support point, counted from 1)
prob_logged(a) ==
    {<<"NaN or Inf Likelihood detected!", c[1], c[2]>> :
        c \in {c \in (1..Len(a.obs)) \X (1..Len(a.ypred[1])) :
                  Anomalous(normal_likelihood(a.ypred[c[1]][c[2]],
                                              a.obs[c[1]], a.sigma[c[1]]))}}

\* <<subjects, support points, observations per subject>>
ProbShapes == {<<1, 1, 1>>, <<1, 2, 1>>, <<1, 1, 2>>, <<1, 2, 2>>,
               <<2, 1, 1>>}

ProbArgs ==
    UNION {[obs : SeqsOf(SeqsOf({0, 1}, sh[3]), sh[1]),
            sigma : SeqsOf(SeqsOf({0, 1, 2}, sh[3]), sh[1]),
            ypred : SeqsOf(SeqsOf(SeqsOf({Fin(0), Fin(1), NaN}, sh[3]),
                                  sh[2]), sh[1])] : sh \in ProbShapes}

InitProb ==
    /\ DriverIdle
    /\ cfg_cycles = 0
    /\ pmetrics = FALSE
    /\ pc = "prob_call"
    /\ arg \in ProbArgs
    /\ res = <<>>
    /\ logged = {}

Prob ==
    /\ pc = "prob_call"
    /\ res' = prob_matrix(arg)
    /\ logged' = logged \cup prob_logged(arg)
    /\ pc' = "prob_ret"
    /\ UNCHANGED <<driver_vars, arg>>

NextProb == Prob

SpecProb == InitProb /\ [][NextProb]_vars

(***************************************************************************)
(* Startup: start reads and validates the settings                         *)
(* (src/src/routines/settings.rs), then the fit enters npag, which         *)
(* matches the error class before it creates its files.  arg is the        *)
(* Settings value the configuration file deserialises to.                  *)
(***************************************************************************)
\* the number of random parameters of a configuration is 0..MaxParams
MaxParams == 2

\* mutant: equal bounds pass
RandomValidateStrict(parameters) ==
    IF \E i \in 1..Len(parameters) : parameters[i][1] > parameters[i][2]
    THEN "Err" ELSE "Ok"
\* Random::validate: Err for the first key with lower >= upper
RandomValidate(parameters) ==
    IF \E i \in 1..Len(parameters) : parameters[i][1] >= parameters[i][2]
    THEN "Err" ELSE "Ok"

\* Error::validate: Err if value < 0.0
ErrorValidate(error) == IF error.value < 0 THEN "Err" ELSE "Ok"

\* read_settings, after the file was parsed and deserialised
read_settings(settings) ==
    IF RandomValidate(settings.random) = "Err" THEN <<"Err", "random">>
    ELSE IF ErrorValidate(settings.error) = "Err" THEN <<"Err", "error">>
    ELSE <<"Ok", settings>>

\* match settings.parsed.error.class.as_str()
ErrorClassKnown(class) == class \in {"additive", "proportional"}

SettingsArgs ==
    [random : UNION {SeqsOf((-1..1) \X (-1..1), n) : n \in 0..MaxParams},
     error : [value : -1..1,
              class : {"additive", "proportional", "other"}]]

InitStart ==
    /\ DriverIdle
    /\ cfg_cycles = 0
    /\ pmetrics = FALSE
    /\ pc = "start"
    /\ arg \in SettingsArgs
    /\ res = <<>>
    /\ logged = {}

\* start, lines 91-97: read_settings, on Err the process exits; on Ok
\* read_settings has written settings.json
ReadSettings ==
    /\ pc = "start"
    /\ res' = read_settings(arg)
    /\ IF res'[1] = "Ok"
       THEN /\ files' = files \cup {"settings.json"}
            /\ pc' = "fit"
            /\ logged' = logged
       ELSE /\ files' = files
            /\ pc' = "exit"
            /\ logged' = logged \cup {"Error reading settings"}
    /\ UNCHANGED <<theta, psi, lambda, w, eps, last_objf, objf, f0, f1,
                   cycle, gamma_delta, gamma, converged, n_old, state, chan,
                   seen, meta, stopfile, stop_born, cfg_cycles, dataset,
                   theta0, pmetrics, rx_open, arg>>

\* npag, lines 34-69: the error class is matched, then meta_rust.csv is
\* created and its header written; the loop starts on the initial grid
NpagEntry ==
    /\ pc = "fit"
    /\ IF ErrorClassKnown(res[2].error.class)
       THEN /\ pc' = "head"
            /\ files' = files \cup {"meta_rust.csv"}
            /\ theta' = << <<5120, 0>> >>
            /\ theta0' = theta'
            /\ logged' = logged
       ELSE /\ pc' = "panic"
            /\ logged' = logged \cup {"Error type not supported"}
            /\ UNCHANGED <<files, theta, theta0>>
    /\ UNCHANGED <<psi, lambda, w, eps, last_objf, objf, f0, f1, cycle,
                   gamma_delta, gamma, converged, n_old, state, chan, seen,
                   meta, stopfile, stop_born, cfg_cycles, dataset, pmetrics,
                   rx_open, arg, res>>

\* after a valid startup the first step of the loop: prediction, psi and
\* the first IPM solve
NextStart == ReadSettings \/ NpagEntry \/ Solve1

SpecStart == InitStart /\ [][NextStart]_vars

(***************************************************************************)
(* samplers::sobol(n, ranges, seed).  Its code is not among the sources;   *)
(* it is modelled from the specification: the generator yields n points    *)
(* of the unit box for (n, seed), and coordinate k of a point is mapped    *)
(* into [low_k, high_k].  The unit points are an input (arg.unit); for     *)
(* seed 347 and n = 5 they are the points the test basic_sobol tabulates.  *)
(* A coordinate is an integer number of 1e-8, the precision of the tables. *)
(***************************************************************************)
\* 1.0 in units of 1e-8
Unit == 100000000

\* the number of points of a call is 0..MaxPoints (5 in the tests)
MaxPoints == 2

\* tests/mod.rs, basic_sobol: sobol(5, [(0,1),(0,1),(0,1)], 347)
basic_sobol ==
    << <<10731888, 14647412, 58510387>>,
       <<98403050, 76333654, 19097507>>,
       <<38477110, 73466134, 26162910>>,
       <<70233000, 41038263, 91586840>>,
       <<60167587, 61712956, 62639713>> >>

\* tests/mod.rs, scaled_sobol: sobol(5, [(0,1),(0,2),(-1,1)], 347)
scaled_sobol ==
    << <<10731888, 29294825, 17020774>>,
       <<98403050, 152667310, -61804986>>,
       <<38477110, 146932270, -47674180>>,
       <<70233000, 82076526, 83173680>>,
       <<60167587, 123425910, 25279427>> >>

\* mutant: the low bound is not taken off the width
sobol_scale_by_high(u, range) == range[1] * Unit + u * range[2]
\* low + u * (high - low)
sobol_scale(u, range) == range[1] * Unit + u * (range[2] - range[1])

sobol(n, rngs, unit) ==
    [i \in 1..n |-> [k \in 1..Len(rngs) |-> sobol_scale(unit[i][k], rngs[k])]]

SobolRanges == {<<0, 1>>, <<0, 2>>, <<-1, 1>>}

SobolArgs ==
    UNION {[n : {n}, seed : {1},
            ranges : SeqsOf(SobolRanges, D),
            unit : SeqsOf(SeqsOf({0, Unit \div 2, Unit - 1}, D), n)]
           : n \in 0..MaxPoints, D \in 1..2}
    \cup [n : {5}, seed : {347}, unit : {basic_sobol},
          ranges : {<< <<0, 1>>, <<0, 1>>, <<0, 1>> >>,
                    << <<0, 1>>, <<0, 2>>, <<-1, 1>> >>}]

InitSobol ==
    /\ DriverIdle
    /\ cfg_cycles = 0
    /\ pmetrics = FALSE
    /\ pc = "sobol_call"
    /\ arg \in SobolArgs
    /\ res = <<>>
    /\ logged = {}

Sobol ==
    /\ pc = "sobol_call"
    /\ res' = sobol(arg.n, arg.ranges, arg.unit)
    /\ pc' = "sobol_ret"
    /\ UNCHANGED <<driver_vars, arg, logged>>

NextSobol == Sobol

SpecSobol == InitSobol /\ [][NextSobol]_vars

(***************************************************************************)
(* start_internal (src/src/entrypoints.rs 157-178): the settings and the   *)
(* scenarios are passed in; a thread is spawned that takes the messages    *)
(* off the channel (drop_messages), then the fit runs npag.                *)
(***************************************************************************)
InitInternal ==
    /\ DriverIdle
    /\ cfg_cycles \in 0..MaxCycles
    /\ pmetrics \in BOOLEAN
    /\ pc = "start_internal"
    /\ arg \in {a \in SettingsArgs : a.random = <<>> /\ a.error.value = 1}
    /\ res = <<>>
    /\ logged = {}

StartInternal ==
    /\ pc = "start_internal"
    /\ res' = <<"Ok", arg>>
    /\ pc' = "fit"
    /\ UNCHANGED <<driver_vars, arg, logged>>

NextInternal == StartInternal \/ NpagEntry \/ Next

SpecInternal == InitInternal /\ [][NextInternal]_vars

(***************************************************************************)
(* The QR condensation as a function (src/src/algorithms/npag.rs 111-154). *)
(* A psi of K columns over nsub rows is given by the direction of each     *)
(* column (ids: equal ids are identical columns, different ids are         *)
(* linearly independent ones) and by the sum of the row-normalised column  *)
(* of each direction (sum).  Line 118 sorts the column indices by          *)
(* descending column sum; columns of equal sum may come out in either      *)
(* order.  n_psi.qr() is Ok when psi has no more columns than rows; the    *)
(* ratio r_ii / |R[:,i]| of the permuted matrix is >= 1e-8 exactly when    *)
(* permuted column i is independent of the permuted columns before it.     *)
(* The loop of lines 133-140 pushes row and column perm.indices[keep] for  *)
(* each passing i, keep counting the columns pushed so far.                *)
(***************************************************************************)
MaxCols == 3

Min(a, b) == IF a < b THEN a ELSE b

\* line 118-120: the permutations sorting the columns by descending sum
sort_axis_by(a) ==
    LET K == Len(a.ids) IN
    {p \in InjSeqs(1..K, K) :
        \A i \in 1..K : \A j \in 1..K :
            i < j => a.sum[a.ids[p[i]]] >= a.sum[a.ids[p[j]]]}

\* line 135: the ratio test of permuted column i
ratio_passes(a, p, i) ==
    \A j \in 1..(i - 1) : a.ids[p[j]] # a.ids[p[i]]

\* lines 123-154: the indices of the rows of theta (columns of psi) kept
qr_keep(a, p) ==
    LET K == Len(a.ids) IN
    IF K <= a.nsub
    THEN LET lim_loop == Min(a.nsub, K)
             keep == Cardinality({i \in 1..lim_loop : ratio_passes(a, p, i)})
         IN [k \in 1..keep |-> p[k]]
    ELSE [k \in 1..a.nsub |-> p[k]]

QRArgs ==
    UNION {[nsub : {MaxCols - 1, MaxCols},
            ids : SeqsOf(1..MaxCols, K),
            sum : [1..MaxCols -> 1..MaxCols]] : K \in 1..MaxCols}

InitQR ==
    /\ DriverIdle
    /\ cfg_cycles = 0
    /\ pmetrics = FALSE
    /\ pc = "qr_call"
    /\ arg \in QRArgs
    /\ res = <<>>
    /\ logged = {}

QR ==
    /\ pc = "qr_call"
    /\ \E p \in sort_axis_by(arg) :
         res' = [perm |-> p, kept |-> qr_keep(arg, p)]
    /\ pc' = "qr_ret"
    /\ logged' = IF Len(arg.ids) <= arg.nsub THEN logged
                 ELSE logged \cup {"Pushed down"}
    /\ UNCHANGED <<driver_vars, arg>>

NextQR == QR

SpecQR == InitQR /\ [][NextQR]_vars

(***************************************************************************)
(* adaptative_grid as a function (src/src/algorithms/npag.rs 317-339):     *)
(* called once on a grid of up to MaxGrid rows and on one of the values    *)
(* eps holds in the loop.  The rows are drawn from the rows of the         *)
(* initial grids: interior points, two points closer than THETA_D, and a   *)
(* point on the boundary of the box (an initial grid read from a prior     *)
(* file can hold any point of the box).                                    *)
(***************************************************************************)
MaxGrid == 2

GridPoints == UNION {{th[i] : i \in 1..Len(th)} : th \in InitialThetas}

\* eps after 0, 1, 5 and 10 halvings
GridEps == {EpsInit, EpsInit \div 2, EpsInit \div 32, EpsInit \div 1024}

GridArgs ==
    UNION {[theta : SeqsOf(GridPoints, n), eps : GridEps] : n \in 1..MaxGrid}

InitGrid ==
    /\ DriverIdle
    /\ cfg_cycles = 0
    /\ pmetrics = FALSE
    /\ pc = "grid_call"
    /\ arg \in GridArgs
    /\ res = <<>>
    /\ logged = {}

Grid ==
    /\ pc = "grid_call"
    /\ res' = adaptative_grid(arg.theta, arg.eps)
    /\ pc' = "grid_ret"
    /\ UNCHANGED <<driver_vars, arg, logged>>

NextGrid == Grid

SpecGrid == InitGrid /\ [][NextGrid]_vars

(***************************************************************************)
(* The adoption tests of the gamma line search as a function               *)
(* (src/src/algorithms/npag.rs 199-216).  The driver stands at line 199    *)
(* with a grid of two points: objf, gamma and gamma_delta hold values the  *)
(* loop can give them, and the results of the two candidate solves         *)
(* (lambda_up, objf_up) and (lambda_down, objf_down) are the arguments.    *)
(* arg also keeps the objf, gamma and gamma_delta the search started       *)
(* from.                                                                   *)
(***************************************************************************)
\* gamma_delta after 0..3 halvings and after an adoption: 0.0125 .. 0.8
GammaDeltas == {2, 4, 8, 16, 32, 128}
\* gamma before any move and after one move up
Gammas == {1000, 1100}

LsTheta == << <<5120, 0>>, <<8192, 4096>> >>
LsLambda == <<5000, 5000>>
LsLambdaUp == <<WeightOne - 1, 1>>
LsLambdaDown == <<1, WeightOne - 1>>

InitLs ==
    /\ theta = LsTheta /\ theta0 = LsTheta
    /\ gamma \in Gammas
    /\ gamma_delta \in GammaDeltas
    /\ psi = prob(theta, gamma)
    /\ lambda = LsLambda
    /\ objf \in {0, 1, 3}
    /\ arg \in [objf : {objf}, gamma : {gamma}, gamma_delta : {gamma_delta},
                objf_up : {0, 1, 3}, objf_down : {0, 1, 3},
                lambda_up : {LsLambdaUp}, lambda_down : {LsLambdaDown}]
    /\ w = <<>> /\ eps = EpsInit /\ last_objf = ObjfInit
    /\ f0 = ObjfInit /\ f1 = 0 /\ cycle = 1
    /\ converged = FALSE /\ n_old = 0 /\ state = NoState
    /\ chan = <<>> /\ seen = [cycle |-> 0, stop_text |-> ""]
    /\ meta = <<>> /\ stopfile = FALSE /\ stop_born = 0
    /\ dataset = "objective" /\ rx_open = TRUE /\ files = {"meta_rust.csv"}
    /\ cfg_cycles = 0 /\ pmetrics = FALSE
    /\ pc = "ls_call"
    /\ res = <<>>
    /\ logged = {}

\* lines 199-216
LineSearch ==
    /\ pc = "ls_call"
    /\ LET up == AdoptUp(arg.objf_up, objf)
           g1 == IF up THEN gamma_up ELSE gamma
           o1 == IF up THEN arg.objf_up ELSE objf
           d1 == IF up THEN gamma_delta * 4 ELSE gamma_delta
           l1 == IF up THEN arg.lambda_up ELSE lambda
           p1 == IF up THEN prob(theta, gamma_up) ELSE psi
           down == AdoptDown(arg.objf_down, o1)
           g2 == IF down THEN gamma_down ELSE g1
           o2 == IF down THEN arg.objf_down ELSE o1
           d2 == IF down THEN d1 * 4 ELSE d1
           l2 == IF down THEN arg.lambda_down ELSE l1
           p2 == IF down THEN prob(theta, gamma_down) ELSE p1
       IN /\ gamma' = g2
          /\ objf' = o2
          /\ gamma_delta' = HalveDelta(d2)
          /\ lambda' = l2
          /\ psi' = p2
    /\ pc' = "ls_ret"
    /\ UNCHANGED <<theta, w, eps, last_objf, f0, f1, cycle, converged,
                   n_old, state, chan, seen, meta, logged, stopfile,
                   stop_born, cfg_cycles, dataset, theta0, pmetrics,
                   rx_open, files, arg, res>>

NextLs == LineSearch

SpecLs == InitLs /\ [][NextLs]_vars

(***************************************************************************)
(* The thread that takes the progress messages off the channel             *)
(* (src/src/entrypoints.rs: start 118-147 with tui = false, start_internal *)
(* 166-177, drop_messages 180-190).  arg names the entry point called and  *)
(* holds its settings; the run starts where the channel has been created.  *)
(* The spawned thread owns the receiving half: rx_open holds while         *)
(* drop_messages is in its loop and ends when it returns.  A poll of the   *)
(* empty channel (Err from try_recv) goes round the loop and changes       *)
(* nothing.                                                                *)
(***************************************************************************)
StopUI == [cycle |-> 0, stop_text |-> "StopUI"]

InitDrain ==
    /\ DriverIdle
    /\ cfg_cycles \in 0..MaxCycles
    /\ pmetrics = FALSE
    /\ pc = "spawn"
    /\ arg \in [entry : {"start", "start_internal"},
                random : {<<>>},
                error : [value : {1}, class : {"additive"}]]
    /\ res = <<"Ok", arg>>
    /\ logged = {}

\* start 118-129, start_internal 171-173: the thread is spawned with rx
Spawn ==
    /\ pc = "spawn"
    /\ pc' = "fit"
    /\ UNCHANGED <<driver_vars, arg, res, logged>>

\* drop_messages: Ok(Comm::StopUI) => break, Ok(_) => {}
DropMessages ==
    /\ pc # "spawn"
    /\ rx_open
    /\ chan # <<>>
    /\ seen' = Head(chan)
    /\ chan' = Tail(chan)
    /\ rx_open' = (Head(chan) # StopUI)
    /\ UNCHANGED <<pc, theta, psi, lambda, w, eps, last_objf, objf, f0, f1,
                   cycle, gamma_delta, gamma, converged, n_old, state, meta,
                   logged, stopfile, stop_born, cfg_cycles, dataset, theta0,
                   pmetrics, files, arg, res>>

\* after fit: start 134-144 sends Comm::StopUI and goes on to the join,
\* start_internal 176-177 returns
AfterFit ==
    /\ pc = "done"
    /\ IF arg.entry = "start"
       THEN SendUnwrap(StopUI, "join")
       ELSE chan' = chan /\ pc' = "returned"
    /\ UNCHANGED <<theta, psi, lambda, w, eps, last_objf, objf, f0, f1,
                   cycle, gamma_delta, gamma, converged, n_old, state, seen,
                   meta, logged, stopfile, stop_born, cfg_cycles, dataset,
                   theta0, pmetrics, rx_open, files, arg, res>>

\* start 145-147: handle.join() returns when the thread has ended
Join ==
    /\ pc = "join"
    /\ ~rx_open
    /\ pc' = "returned"
    /\ UNCHANGED <<driver_vars, arg, res, logged>>

NextDrain ==
    \/ Spawn \/ NpagEntry
    \/ Solve1 \/ Condense \/ Solve2 \/ GammaSearch
    \/ Report \/ ConvTest \/ MaxCycleTest \/ StopPoll \/ Expand
    \/ CreateStop \/ DropMessages \/ AfterFit \/ Join

SpecDrain == InitDrain /\ [][NextDrain]_vars

(***************************************************************************)
(* The two weight-threshold prunes as functions                            *)
(* (src/src/algorithms/npag.rs 100-109 and 218-231).  The driver stands    *)
(* before one of them with a grid of K <= MaxCols rows and a lambda the    *)
(* IPM contract allows: K entries >= 0 that sum to 1.  The weights are     *)
(* drawn from values around the thresholds: 0, 1e-4, pairs just above,     *)
(* at and just below max/1000, and even splits.                            *)
(***************************************************************************)
PruneWeights ==
    {0, 1, 9, 10, 991, 4995, 5000, 5005, 8999, 9000, 9990, 9999, WeightOne}

PruneLambdas ==
    UNION {{lam \in SeqsOf(PruneWeights, K) : SumSeq(lam) = WeightOne}
           : K \in 1..MaxCols}

\* row j of the grid is the point <<j, 0>>
PruneTheta(K) == [j \in 1..K |-> <<j, 0>>]

InitPrune ==
    /\ lambda \in PruneLambdas
    /\ theta = PruneTheta(Len(lambda)) /\ theta0 = theta
    /\ gamma = 1000 /\ gamma_delta = DeltaInit
    /\ psi = prob(theta, gamma)
    /\ arg \in [theta : {theta}, prune : {"first", "final"}]
    /\ objf = 0
    /\ w = <<>> /\ eps = EpsInit /\ last_objf = ObjfInit
    /\ f0 = ObjfInit /\ f1 = 0 /\ cycle = 1
    /\ converged = FALSE /\ n_old = 0 /\ state = NoState
    /\ chan = <<>> /\ seen = [cycle |-> 0, stop_text |-> ""]
    /\ meta = <<>> /\ stopfile = FALSE /\ stop_born = 0
    /\ dataset = "weights" /\ rx_open = TRUE /\ files = {"meta_rust.csv"}
    /\ cfg_cycles = 0 /\ pmetrics = FALSE
    /\ pc = "prune_call"
    /\ res = <<>>
    /\ logged = {}

\* lines 100-109
PruneFirst ==
    /\ pc = "prune_call" /\ arg.prune = "first"
    /\ LET keep == KeepFirst(lambda) IN
       /\ theta' = theta_rows(theta, keep)
       /\ psi' = psi_columns(psi, keep)
       /\ w' = w
    /\ pc' = "pruned"
    /\ UNCHANGED <<lambda, eps, last_objf, objf, f0, f1, cycle, gamma_delta,
                   gamma, converged, n_old, state, chan, seen, meta, logged,
                   stopfile, stop_born, cfg_cycles, dataset, theta0,
                   pmetrics, rx_open, files, arg, res>>

\* lines 218-231
PruneFinal ==
    /\ pc = "prune_call" /\ arg.prune = "final"
    /\ LET keep == KeepFinal(lambda) IN
       /\ theta' = theta_rows(theta, keep)
       /\ psi' = psi_columns(psi, keep)
       /\ w' = lambda_tmp(lambda, keep)
    /\ pc' = "pruned"
    /\ UNCHANGED <<lambda, eps, last_objf, objf, f0, f1, cycle, gamma_delta,
                   gamma, converged, n_old, state, chan, seen, meta, logged,
                   stopfile, stop_born, cfg_cycles, dataset, theta0,
                   pmetrics, rx_open, files, arg, res>>

NextPrune == PruneFirst \/ PruneFinal

SpecPrune == InitPrune /\ [][NextPrune]_vars

(***************************************************************************)
(* Properties.                                                             *)
(***************************************************************************)
Max1(n) == IF n < 1 THEN 1 ELSE n

\* the positions at which the cycle's theta, psi and w are fixed: from the
\* final prune to the end of the cycle, and the returned result
Fixed == pc \in {"report", "conv", "maxcyc", "stoppoll", "expand", "done"}

\* the last message given to the channel, whether received or not
LastSent == IF chan # <<>> THEN chan[Len(chan)] ELSE seen

\* C1: from the final prune of every cycle on, and in the result npag
\* returns (however the loop ended), theta has as many rows as psi has
\* columns and as w has entries.
C1_SizesAgree ==
    Fixed => Len(theta) = Len(psi) /\ Len(psi) = Len(w)

\* a run returned in cycle 2 with two support points, left by the prunes
\* and the condensation of an expanded grid
C1_Witness ==
    /\ pc = "done" /\ cycle = 2 /\ Len(w) = 2 /\ n_old >= 1
    /\ Len(lambda) = 2

\* C2 (as claimed): every entry of the reported w is >= 0 and
\* |sum(w) - 1| <= 1e-8, at every cycle and in the returned result.
C2_WeightsSumToOne ==
    Fixed => /\ \A i \in 1..Len(w) : w[i] >= 0
             /\ Abs(SumSeq(w) - WeightOne) * 10000 <= 1

\* C3: every coordinate of every row of theta lies in the closed range of
\* its parameter, at every point of every cycle.
C3_InBox ==
    \A i \in 1..Len(theta) : \A k \in 1..Dim :
        ranges[k][1] <= theta[i][k] /\ theta[i][k] <= ranges[k][2]

\* the grid was expanded around a point on the lower boundary of the box
C3_Witness ==
    /\ pc = "head" /\ cycle = 2 /\ Len(theta) > n_old
    /\ \E i \in 1..n_old : theta[i][1] = ranges[1][1]

\* sum_k |p_k - q_k| / (high_k - low_k) > 1e-4, over the common
\* denominator 20480 of the two ranges
FarApart(p, q) ==
    (Abs(p[1] - q[1]) * (20480 \div Width(1))
     + Abs(p[2] - q[2]) * (20480 \div Width(2))) * 10000 > 20480

InTheta0(p) == \E i \in 1..Len(theta0) : theta0[i] = p

\* C4: right after a grid expansion every pair of rows of which at least
\* one was appended by it is more than THETA_D apart in scaled L1
\* distance; and at any time two rows of theta that are not are both rows
\* of the initial theta.
C4_NewPointsFarApart ==
    /\ pc = "head" /\ cycle > 1 =>
         \A i \in 1..Len(theta) : \A j \in (n_old + 1)..Len(theta) :
             i # j => FarApart(theta[i], theta[j])
    /\ \A i \in 1..Len(theta) : \A j \in 1..Len(theta) :
         i # j /\ ~FarApart(theta[i], theta[j])
             => InTheta0(theta[i]) /\ InTheta0(theta[j])

\* an expansion that kept two old rows closer than THETA_D and appended
\* new ones
C4_Witness ==
    /\ pc = "head" /\ cycle = 2 /\ n_old = 2 /\ Len(theta) > 2
    /\ ~FarApart(theta[1], theta[2])

\* C5: a run returns converged = TRUE only from a cycle in which
\* |last_objf - objf| <= THETA_G halved eps to the floor and
\* |f1 - f0| <= THETA_F held; a convergence test that reaches the floor
\* with |f1 - f0| > THETA_F goes on to the cycle-cap test with f0 = f1,
\* eps = 0.2 and converged still FALSE.
C5_ConvergedOnlyByBothCriteria ==
    [][ /\ (pc' = "done" /\ converged') =>
             /\ Abs(last_objf' - objf') <= THETA_G
             /\ eps' <= THETA_E /\ 2 * eps' > THETA_E
             /\ Abs(f1' - f0') <= THETA_F
        /\ (/\ pc = "conv" /\ pc' # "conv"
            /\ Abs(last_objf - objf) <= THETA_G
            /\ eps > THETA_E /\ eps \div 2 <= THETA_E
            /\ Abs(f1' - f0) > THETA_F) =>
             /\ pc' = "maxcyc" /\ f0' = f1' /\ eps' = EpsInit
             /\ ~converged' /\ meta' = meta
      ]_vars

\* a run that converged after an earlier floor hit had reset f0 to 1.01e-2
C5_Witness == pc = "done" /\ converged /\ f0 = 101 /\ cycle = 23

C8_StopSeenAtNextPoll ==
    /\ stop_born # 0 => cycle <= stop_born
    /\ pc = "done" /\ stop_born # 0 => cycle = stop_born
    /\ pc = "done" /\ state.stop_text = "No (stopped)" =>
         /\ stop_born = cycle /\ ~converged
         /\ state.cycle = cycle /\ state.nspp = Len(theta)
    /\ pc = "done" /\ stop_born = 4 => cycle = 4 /\ ~converged

\* the file appeared between the poll of cycle 3 and the end of cycle 3,
\* and the poll of cycle 4 ended the run
C8_Witness ==
    /\ pc = "done" /\ stop_born = 4 /\ cycle = 4 /\ cfg_cycles > 4
    /\ state.stop_text = "No (stopped)"

\* C9 (as claimed): a cycle whose objf is below that of the cycle before
\* logs the decrease and goes on to emit its event and to the convergence
\* test.
C9_DecreaseContinues ==
    [][ (pc = "report" /\ pc' # "report" /\ last_objf > objf) =>
             /\ pc' = "conv"
             /\ LastSent'.cycle = cycle
             /\ "Objf decreased" \in logged'
      ]_vars

\* C10 (as claimed): every cycle that is executed emits its event, so from
\* the event of a cycle on and in the returned result the last message
\* sent carries the current cycle number; the messages in the channel
\* follow the one the observer saw last with cycle numbers that never
\* decrease and never skip.
C10_EveryCycleReported ==
    /\ pc \in {"conv", "maxcyc", "stoppoll", "expand", "done"} =>
         LastSent.cycle = cycle
    /\ \A i \in 1..Len(chan) :
         LET before == IF i = 1 THEN seen.cycle ELSE chan[i - 1].cycle
         IN chan[i].cycle \in {before, before + 1}

\* C11 (as claimed): a run that returned has written exactly one record
\* after the header of meta_rust.csv, holding the returned converged flag
\* and the returned cycle, and the last state it sent has a non-empty
\* stop text.
C11_OneMetaRecord ==
    pc = "done" =>
        /\ Len(meta) = 1
        /\ meta[1] = <<IF npag_result.converged THEN "true" ELSE "false",
                       npag_result.cycle>>
        /\ LastSent.stop_text # ""

\* C12 (as claimed): the objective in the returned tuple is the value the
\* event of the final cycle carried as its objective, -2 * objf.
C12_ResultObjective ==
    pc = "done" /\ state # NoState /\ state.cycle = cycle =>
        npag_result.objf = state.objf

\* C13 (as claimed): whatever the observer does (takes the messages at
\* once, late, never, or has exited), the driver is not stopped by it:
\* the only run that does not return is one aborted by an IPM error.
C13_ObserverNeverStopsDriver ==
    pc = "panic" => "Error in IPM" \in logged

\* C14 (as claimed): a cell whose likelihood is computed from a NaN
\* prediction or with sigma = 0 (NaN or infinite in IEEE arithmetic) is
\* logged with its subject and support point and stored as 0, and every
\* cell of the matrix prob returns is finite and >= 0.
C14_AnomalyStoredAsZero ==
    pc = "prob_ret" =>
        \A i \in 1..Len(res) : \A j \in 1..Len(res[i]) :
            LET bad == \E k \in 1..Len(arg.obs[i]) :
                           arg.ypred[i][j][k].k = "nan" \/ arg.sigma[i][k] = 0
            IN /\ res[i][j].class \in {"zero", "pos"}
               /\ bad => /\ res[i][j].class = "zero"
                         /\ <<"NaN or Inf Likelihood detected!", i, j>>
                                \in logged

\* C15 (as claimed): prob returns one row per subject and one column per
\* support point, and for finite predictions and sigma > 0 the factor of
\* observation k is (1/(sqrt(2 pi) sigma)) exp(-(y - yhat)^2 / (2 sigma^2)).
C15_GaussianDensity ==
    pc = "prob_ret" =>
        /\ Len(res) = Len(arg.obs)
        /\ \A i \in 1..Len(res) :
             /\ Len(res[i]) = Len(arg.ypred[i])
             /\ \A j \in 1..Len(res[i]) : \A k \in 1..Len(arg.obs[i]) :
                  (arg.ypred[i][j][k].k = "fin" /\ arg.sigma[i][k] > 0) =>
                      LET f == res[i][j].factors[k]
                          d == arg.obs[i][k] - arg.ypred[i][j][k].v
                          sg == arg.sigma[i][k]
                      IN /\ Len(res[i][j].factors) = Len(arg.obs[i])
                         /\ f.over = sg
                         /\ f.num = Fin(d * d)
                         /\ f.den = 2 * sg * sg

\* C16: an IPM solve that returns an error (at the first solve, the solve
\* on the condensed psi, or the solves for gamma up and down) aborts the
\* run with the diagnostic "Error in IPM": the step it interrupts changes
\* nothing of the driver's state, and from then on the driver takes no
\* step: no later step of the cycle, no later cycle, no record, no
\* message, no return.
C16_IpmErrorAborts ==
    [][ /\ "Error in IPM" \in logged' => pc' = "panic"
        /\ ("Error in IPM" \in logged' /\ "Error in IPM" \notin logged) =>
             /\ pc \in {"head", "ipm2", "gamma"}
             /\ UNCHANGED <<theta, psi, lambda, w, eps, last_objf, objf, f0,
                            f1, cycle, gamma_delta, gamma, converged, state,
                            chan, meta>>
        /\ pc = "panic" =>
             /\ pc' = "panic"
             /\ UNCHANGED <<theta, psi, lambda, w, eps, last_objf, objf, f0,
                            f1, cycle, gamma_delta, gamma, converged, state,
                            meta, logged>>
             /\ Len(chan') <= Len(chan)
      ]_vars

\* a run aborted in its second cycle during the gamma line search: the
\* solve on the condensed psi of the cycle had set objf
C16_Witness ==
    /\ pc = "panic" /\ cycle = 2 /\ "Error in IPM" \in logged
    /\ objf = 3 /\ last_objf = 1 /\ meta = <<>>

\* C17: a configuration with a random parameter whose low >= high, or
\* with a negative error.value, makes read_settings return Err: start
\* exits there, no Settings value exists, settings.json is not written
\* and the fit is never entered.  A configuration that passes
\* read_settings with an error.class other than "additive" and
\* "proportional" makes npag panic at entry: before meta_rust.csv is
\* created, before any psi is computed and before any IPM solve.
C17_InvalidConfigFatal ==
    LET bad_random == \E i \in 1..Len(arg.random) :
                          arg.random[i][1] >= arg.random[i][2]
        bad_value == arg.error.value < 0
        bad_class == arg.error.class \notin {"additive", "proportional"}
        unfitted == psi = <<>> /\ lambda = <<>> /\ theta = <<>>
                    /\ "meta_rust.csv" \notin files
    IN /\ (bad_random \/ bad_value) =>
            /\ pc \in {"start", "exit"}
            /\ files = {} /\ unfitted
            /\ pc = "exit" => res[1] = "Err" /\ Len(res) = 2
                                /\ res[2] \in {"random", "error"}
       /\ bad_class =>
            /\ pc \in {"start", "exit", "fit", "panic"}
            /\ unfitted
            /\ pc = "panic" => "Error type not supported" \in logged
       /\ pc = "exit" => bad_random \/ bad_value
       /\ pc = "panic" => bad_class \/ "Error in IPM" \in logged

\* start exited on a configuration whose only fault is a parameter with
\* low = high
C17_Witness ==
    /\ pc = "exit" /\ arg.error.value = 0 /\ arg.error.class = "additive"
    /\ arg.random = << <<0, 1>>, <<1, 1>> >>

\* the spacing of single-precision values at magnitude v, in units of
\* 1e-8 and rounded up: the tables print single-precision values, to 8
\* decimals below 1 and to 7 from 1 on
Ulp32(v) ==
    IF Abs(v) >= Unit THEN 12
    ELSE IF 2 * Abs(v) >= Unit THEN 6
    ELSE IF 4 * Abs(v) >= Unit THEN 3
    ELSE 2

C19_InternalWritesNoFile ==
    files = {}

\* C20 (as claimed): when psi has two identical columns and every other
\* column differs from them, the condensation keeps exactly one of the two,
\* whatever the column-sum ordering and the other columns are.
C20_OneDuplicateKept ==
    (pc = "qr_ret" /\ Len(arg.ids) <= arg.nsub) =>
        \A a \in 1..Len(arg.ids) : \A b \in 1..Len(arg.ids) :
            (/\ a < b
             /\ arg.ids[a] = arg.ids[b]
             /\ \A c \in 1..Len(arg.ids) :
                    arg.ids[c] = arg.ids[a] => c \in {a, b})
            => Cardinality({k \in 1..Len(res.kept) :
                               res.kept[k] \in {a, b}}) = 1

\* c lies strictly within the range of every parameter
StrictlyInBox(c) ==
    \A k \in 1..Dim : ranges[k][1] < c[k] /\ c[k] < ranges[k][2]

\* p + eps * (high_k - low_k) * e_k and p - eps * (high_k - low_k) * e_k
\* for every row p of old and every axis k
Candidates(old, e) ==
    {[old[i] EXCEPT ![k] = old[i][k] + s * GridStep(e, k)] :
        i \in 1..Len(old), k \in 1..Dim, s \in {-1, 1}}

\* C21 (as claimed): adaptative_grid returns the rows it was given as a
\* prefix; every row it appended is a candidate p +- eps*(high_k - low_k)
\* along one axis, lies strictly within all box bounds and is more than
\* THETA_D from every row before it; every candidate strictly within all
\* box bounds is appended unless it is within THETA_D of a row of the
\* result; around the centre of the box at eps = 0.2 exactly the four
\* points at +-0.2 of the width along each axis are added.
C21_GridExpansion ==
    pc = "grid_ret" =>
        LET old == arg.theta
            cand == Candidates(old, arg.eps)
            new == (Len(old) + 1)..Len(res)
        IN /\ Len(res) >= Len(old)
           /\ \A i \in 1..Len(old) : res[i] = old[i]
           /\ \A n \in new :
                /\ res[n] \in cand
                /\ StrictlyInBox(res[n])
                /\ \A m \in 1..(n - 1) : FarApart(res[m], res[n])
           /\ \A c \in cand :
                StrictlyInBox(c) =>
                    \/ \E n \in new : res[n] = c
                    \/ \E m \in 1..Len(res) : ~FarApart(c, res[m])
           /\ (old = << <<5120, 0>> >> /\ arg.eps = EpsInit) =>
                /\ Len(res) = 5
                /\ {res[n] : n \in new}
                       = {<<3072, 0>>, <<7168, 0>>,
                          <<5120, -4096>>, <<5120, 4096>>}

\* gamma * (1 + gamma_delta) and gamma / (1 + gamma_delta) of the values
\* the search started from
ArgGammaUp == (arg.gamma * (160 + arg.gamma_delta)) \div 160
ArgGammaDown == (arg.gamma * 160) \div (160 + arg.gamma_delta)

\* the search ended on the down candidate: its gamma, lambda, psi and objf
DownWon ==
    /\ gamma = ArgGammaDown
    /\ lambda = arg.lambda_down
    /\ psi = prob(theta, ArgGammaDown)
    /\ objf = arg.objf_down

\* the search ended on the up candidate
UpWon ==
    /\ gamma = ArgGammaUp
    /\ lambda = arg.lambda_up
    /\ psi = prob(theta, ArgGammaUp)
    /\ objf = arg.objf_up

\* C22 (as claimed): when objf_up > objf and objf_down > objf, for the
\* objf the search started from, the search ends on the down candidate.
C22_DownWinsWhenBothImprove ==
    (pc = "ls_ret" /\ arg.objf_up > arg.objf /\ arg.objf_down > arg.objf)
        => DownWon

\* C22 (amended): the down candidate is adopted, with its gamma, lambda,
\* psi and objf, exactly when objf_down exceeds both objf and objf_up if
\* up improved on objf, i.e. when objf_down exceeds the objective the up
\* test left; when both improve on the starting objf but objf_down does
\* not exceed objf_up, the up candidate stays.
C22_DownWinsOnlyOverUp ==
    pc = "ls_ret" =>
        LET best == IF arg.objf_up > arg.objf THEN arg.objf_up
                    ELSE arg.objf
        IN /\ arg.objf_down > best => DownWon
           /\ (arg.objf_down <= best /\ arg.objf_up > arg.objf) => UpWon
           /\ (arg.objf_down <= best /\ arg.objf_up <= arg.objf) =>
                  /\ gamma = arg.gamma /\ objf = arg.objf
                  /\ lambda = LsLambda /\ psi = prob(theta, arg.gamma)

\* both candidates improved on the starting objf and up stayed
C22_Witness ==
    /\ pc = "ls_ret" /\ arg.objf = 0 /\ arg.objf_up = 3 /\ arg.objf_down = 1
    /\ UpWon /\ objf = 3

\* the step of the driver that runs the gamma line search to its end
SearchStep == pc = "gamma" /\ pc' = "report"

\* C23 (as claimed): gamma_delta > 0.01 at every point of a run, and a
\* gamma line search leaves gamma_delta at twice its value, at half its
\* value, or at 0.1.
C23_DeltaTimesFourOnce ==
    /\ [](gamma_delta * 10 > 16)
    /\ [][SearchStep =>
            gamma_delta' \in {2 * gamma_delta, gamma_delta \div 2,
                              DeltaInit}]_vars

\* C23 (amended): gamma_delta is multiplied by 4 for each move adopted in
\* the cycle (by 16 when the up move and then the down move are adopted),
\* then halved, then reset to 0.1 if the result is <= 0.01: a search
\* without a move leaves delta/2 or 0.1, a search with a move leaves
\* 2*delta or 8*delta, the latter only on gamma_down and with a higher
\* objective; gamma_delta > 0.01 at every point of a run and only the
\* search changes it.
C23_DeltaTimesFourPerMove ==
    /\ [](gamma_delta * 10 > 16)
    /\ [][/\ SearchStep /\ gamma' = gamma =>
                gamma_delta' = HalveDelta(gamma_delta)
          /\ SearchStep /\ gamma' # gamma =>
                /\ gamma_delta' \in {2 * gamma_delta, 8 * gamma_delta}
                /\ gamma_delta' = 8 * gamma_delta =>
                       gamma' = gamma_down /\ objf' > objf
          /\ ~SearchStep => gamma_delta' = gamma_delta]_vars

\* the first cycle adopted the up move and then the down move
C23_Witness ==
    /\ pc = "report" /\ cycle = 1 /\ gamma_delta = 8 * DeltaInit
    /\ objf = 3 /\ gamma < 1000

\* C24 (as claimed): when the factorisation succeeds, the rows of theta
\* and the columns of psi kept are exactly the perm.indices[i] whose
\* ratio r_ii / |R[:,i]| is >= 1e-8, for i below min(N, K).
C24_KeptArePassingColumns ==
    (pc = "qr_ret" /\ Len(arg.ids) <= arg.nsub) =>
        {res.kept[k] : k \in 1..Len(res.kept)}
            = {res.perm[i] : i \in {j \in 1..Min(arg.nsub, Len(arg.ids)) :
                                      ratio_passes(arg, res.perm, j)}}

\* the columns a prune drops: lambda_j <= max(lambda)/1000, and in the
\* first prune of a cycle lambda_j <= 1e-8 as well
DroppedFinal(lam) == {j \in 1..Len(lam) : lam[j] * 1000 <= MaxSeq(lam)}
DroppedFirst(lam) ==
    DroppedFinal(lam) \cup {j \in 1..Len(lam) : lam[j] * 10000 <= 1}

\* s without the entries whose index is in drop, in the original order
RECURSIVE Without(_, _)
Without(s, drop) ==
    IF s = <<>> THEN <<>>
    ELSE Without(SubSeq(s, 1, Len(s) - 1), drop)
         \o (IF Len(s) \in drop THEN <<>> ELSE <<s[Len(s)]>>)

\* column j of ps is the likelihood column of row j of th
CoIndexed(th, ps) ==
    Len(ps) = Len(th) /\ \A j \in 1..Len(th) : ps[j].pt = th[j]

\* C25: the first prune of a cycle leaves the rows of theta whose weight
\* in the lambda just solved is above both thresholds, in their order,
\* and the psi columns of exactly those rows; the final prune leaves the
\* rows whose weight in the adopted lambda is above max/1000, in their
\* order, with their psi columns (at the adopted gamma) and their weights
\* as w.
C25_PrunesFilterTogether ==
    [][/\ (pc = "head" /\ pc' = "qr") =>
            /\ Len(lambda') = Len(theta)
            /\ theta' = Without(theta, DroppedFirst(lambda'))
            /\ CoIndexed(theta', psi')
       /\ SearchStep =>
            /\ Len(lambda') = Len(theta)
            /\ theta' = Without(theta, DroppedFinal(lambda'))
            /\ w' = Without(lambda', DroppedFinal(lambda'))
            /\ CoIndexed(theta', psi')
            /\ \A j \in 1..Len(psi') : psi'[j].gl = gamma']_vars

\* a final prune dropped the first of two columns and kept the second
C25_Witness ==
    /\ pc = "report" /\ Len(lambda) = 2 /\ lambda[1] = 1
    /\ Len(w) = 1 /\ Len(theta) = 1 /\ Len(psi) = 1

\* the Comm::StopUI messages in the channel
StopsInFlight == {i \in 1..Len(chan) : chan[i] = StopUI}

\* C26 (as claimed): Comm::StopUI is sent at most once and only by start
\* after the fit; and the thread that takes the messages terminates: once
\* the entry point has returned, the thread has ended or still has a
\* message to take.  (After the return nothing is sent any more, so a
\* thread then polling an empty channel polls it forever.)
C26_DrainTerminates ==
    /\ Cardinality(StopsInFlight) <= 1
    /\ StopsInFlight # {} =>
           arg.entry = "start" /\ pc \in {"join", "returned"}
    /\ pc = "returned" => (~rx_open \/ chan # <<>>)

\* 0.2 / 2^k for k = 0..10
EpsLadder == {EpsInit \div (2 ^ k) : k \in 0..10}

\* C27: at the start of every cycle eps is 0.2 / 2^k for some k in 0..10,
\* hence THETA_E < eps <= 0.2; eps changes only in the convergence test
\* of a cycle with |last_objf - objf| <= THETA_G, by one halving, or from
\* there by the reset to 0.2 when the halving reaches the floor and the
\* run does not converge; the loop guard never fails, so the loop is left
\* only by a break.
C27_EpsLadderAboveFloor ==
    /\ [](pc = "head" =>
            eps \in EpsLadder /\ THETA_E < eps /\ eps <= EpsInit)
    /\ [][/\ eps' # eps =>
                /\ pc = "conv"
                /\ Abs(last_objf - objf) <= THETA_G
                /\ \/ eps' = eps \div 2
                   \/ /\ eps' = EpsInit
                      /\ eps \div 2 <= THETA_E
                      /\ ~converged' /\ pc' = "maxcyc"
          /\ pc = "head" => pc' # "done"]_vars

\* the cycle starts with eps one halving above the floor, for the second
\* time in the run (the first floor hit reset eps to 0.2)
C27_Witness ==
    pc = "head" /\ cycle = 23 /\ eps = EpsInit \div 1024 /\ f0 # ObjfInit

\* C28: a run returns converged = TRUE in cycle 23 at the earliest (the
\* first cycle never halves eps, eleven halving cycles reach the floor,
\* the first floor hit resets eps because f0 starts at -1e30, eleven more
\* reach it again); a run with config.cycles < 23 never converges.
C28_NoConvergenceBeforeCycle23 ==
    /\ converged => cycle >= 23
    /\ cfg_cycles < 23 => ~converged
    /\ (cycle = 1 /\ pc \in {"maxcyc", "stoppoll", "expand"}) =>
           eps = EpsInit
    /\ (f0 = ObjfInit /\ pc = "done") => ~converged

\* a run converged in cycle 23, at its second floor hit
C28_Witness ==
    /\ pc = "done" /\ converged /\ cycle = 23 /\ eps = EpsInit \div 2048
    /\ meta = << <<"true", 23>> >>

\* the three terminal outcomes a run can record
Outcomes == {"The run converged!", "No (max cycle)", "No (stopped)"}

\* C29 (as claimed): a run that returned recorded exactly one of the three
\* terminal outcomes, the one of the first end-of-cycle test that fired
\* in the order convergence, max cycles, stop file: a converged run
\* records convergence whatever the cycle cap and the stop file are, a
\* run ended by the cap did not converge, and a run ended by the stop
\* file neither converged nor had reached the cap.
C29_OneOutcomeInTestOrder ==
    pc = "done" =>
        /\ Len(meta) = 1
        /\ LastSent.stop_text \in Outcomes
        /\ converged <=> LastSent.stop_text = "The run converged!"
        /\ converged <=> meta[1][1] = "true"
        /\ LastSent.stop_text = "No (max cycle)" =>
               ~converged /\ cycle >= cfg_cycles
        /\ LastSent.stop_text = "No (stopped)" =>
               ~converged /\ cycle < cfg_cycles /\ stopfile

\* C30: for every lambda >= 0 that sums to 1 over K >= 1 columns, the
\* first prune and the final prune each keep every column of maximal
\* weight, so theta and psi, and after the final prune w, have at least
\* one entry.
C30_PruneKeepsMaxColumn ==
    pc = "pruned" =>
        /\ Len(theta) >= 1 /\ Len(psi) >= 1
        /\ arg.prune = "final" => Len(w) >= 1
        /\ \A j \in 1..Len(lambda) :
             lambda[j] = MaxSeq(lambda) =>
                 /\ \E k \in 1..Len(theta) : theta[k] = arg.theta[j]
                 /\ \E k \in 1..Len(psi) : psi[k].pt = arg.theta[j]
                 /\ arg.prune = "final" =>
                        \E k \in 1..Len(w) : w[k] = lambda[j]

\* a first prune dropped a column whose weight is exactly max/1000 and
\* kept the column of maximal weight, the last one
C30_Witness ==
    /\ pc = "pruned" /\ arg.prune = "first" /\ lambda = <<9, 991, 9000>>
    /\ theta = << <<2, 0>>, <<3, 0>> >>

=============================================================================
